---- MODULE Spec2Model ----
(***************************************************************************)
(* Model of ChatBot/main.py: a Streamlit page whose script is re-run from  *)
(* top to bottom on every widget interaction.  One action of the model is  *)
(* one user interaction together with the script run(s) it triggers,       *)
(* including the second run started by st.rerun().                         *)
(*                                                                         *)
(* Text is modelled as a sequence of one-character strings, so that        *)
(* str.strip() and truthiness of a string are computed, not assumed.       *)
(***************************************************************************)
EXTENDS Integers, Sequences, FiniteSets, TLC

\* ---------------------------------------------------------------- bounds
\* Longest transcript explored: a chat call made on a transcript of this
\* length is explored only with a failing outcome.
MaxTurns == 3
\* Number of distinct values datetime.now() can return.
MaxTime == 1

\* ------------------------------------------------------------- constants
\* start_time = None
None == 0
\* st.slider('Conversation Memory (messages)', 1, 10, 5)
MinMemory == 1
MaxMemory == 10
DefaultMemory == 5

Times == 1..MaxTime
Models == {"gemma2-9b-it", "mixtral-8x7b-32768", "llama2-70b-4096"}
Personas == {"Default", "Expert", "Creative"}
MemoryLengths == MinMemory..MaxMemory
\* Slider positions the user is drawn through: both ends, the default, and
\* the windows shorter than or as long as the transcripts explored.
SliderChoices == {MinMemory, 2, 3, DefaultMemory, MaxMemory}

\* Contents the user can leave in the text box: empty, blank, a message.
BoxTexts == {<<>>, <<" ">>, <<"a">>}
\* Texts the speech recogniser can return.
HeardTexts == {<<"v">>}
\* Texts the chat service can answer with.
Responses == {<<"r">>}
\* Outcomes of one chat-service call.
ChatOutcomes == {"ok", "error"}
\* The three failures get_voice_input() handles.
HandledSpeechFailures == {"WaitTimeoutError", "UnknownValueError", "RequestError"}
\* Outcomes of one get_voice_input() call; OSError is sr.Microphone() failing
\* to open the device, which happens outside the try block.
SpeechOutcomes == {"recognized", "OSError"} \cup HandledSpeechFailures

Whitespace == {" "}

VARIABLES
    chat_history,      \* st.session_state.chat_history: Seq of [human, AI]
    total_messages,    \* st.session_state.total_messages
    start_time,        \* st.session_state.start_time: None or a timestamp
    user_input,        \* st.session_state.user_input: text box content
    selected_persona,  \* st.session_state.selected_persona
    model,             \* model selectbox value
    memory_length,     \* memory slider value
    memory,            \* the run-local ConversationBufferWindowMemory
    display,           \* what the last script run rendered for the transcript
    request,           \* the chat-service request made by the last action
    voice,             \* the get_voice_input() call made by the last action
    sent,              \* (input, response) of each successful send since the
                       \* transcript was last empty
    dropped,           \* number of turns the last action's Clear removed
    lastEvent          \* the interaction that triggered the last action

vars == <<chat_history, total_messages, start_time, user_input,
          selected_persona, model, memory_length, memory, display,
          request, voice, sent, dropped, lastEvent>>

\* ------------------------------------------------------------ pure parts
Min(a, b) == IF a < b THEN a ELSE b

\* s[-n:] for n > 0
LastN(s, n) == SubSeq(s, Len(s) - Min(Len(s), n) + 1, Len(s))

RECURSIVE lstrip(_)
lstrip(s) == IF s # <<>> /\ Head(s) \in Whitespace THEN lstrip(Tail(s)) ELSE s

RECURSIVE rstrip(_)
rstrip(s) ==
    IF s # <<>> /\ s[Len(s)] \in Whitespace
    THEN rstrip(SubSeq(s, 1, Len(s) - 1))
    ELSE s

\* str.strip()
strip(s) == rstrip(lstrip(s))

\* truthiness of a Python str
Truthy(s) == s # <<>>

\* get_custom_prompt(): the template chosen by the current persona, kept as
\* its instruction line and the label the answer is prompted with.
personas ==
    [p \in Personas |->
        CASE p = "Default"  -> [system |-> "helpful", answer |-> "AI:"]
          [] p = "Expert"   -> [system |-> "expert", answer |-> "Expert:"]
          [] p = "Creative" -> [system |-> "creative", answer |-> "Creative AI:"]]

get_custom_prompt(persona) == personas[persona]

\* text_to_audio(text): gTTS of the text, English, as an MP3 buffer.
text_to_audio(text) == [format |-> "mp3", lang |-> "en", speech |-> text]

\* display_chat_statistics(): the panel is drawn only when start_time is set.
StatisticsShown == start_time # None

\* ConversationBufferWindowMemory(k=memory_length): a fresh, empty memory.
NewMemory(k) == [k |-> k, messages |-> <<>>]

\* memory.save_context({'input': human}, {'output': ai})
save_context(mem, human, ai) ==
    [mem EXCEPT !.messages =
        @ \o << [type |-> "Human", content |-> human],
                [type |-> "AI", content |-> ai] >>]

\* memory.clear()
clear(mem) == [mem EXCEPT !.messages = <<>>]

\* ConversationBufferWindowMemory.buffer: messages[-k * 2:] if k > 0 else []
BufferHalfWindow(mem) == IF mem.k > 0 THEN LastN(mem.messages, mem.k) ELSE <<>>

buffer(mem) == IF mem.k > 0 THEN LastN(mem.messages, mem.k * 2) ELSE <<>>

\* "Load chat history into memory": the for loop over chat_history.
RECURSIVE LoadHistory(_, _)
LoadHistory(mem, hist) ==
    IF hist = <<>> THEN mem
    ELSE LoadHistory(save_context(mem, Head(hist).human, Head(hist).AI),
                     Tail(hist))

\* "Initialize chat components" and "Load chat history into memory": the
\* memory every script run starts from.
KeptMemory(k, hist) == [k |-> k, messages |-> memory.messages]

RunMemory(k, hist) == LoadHistory(NewMemory(k), hist)

\* "Display chat history": one block per stored turn.
RenderTurnNoPersona(message, persona) ==
    [header |-> <<"Assistant", "mode">>,
     human  |-> message.human,
     AI     |-> message.AI,
     audio  |-> text_to_audio(message.AI)]

RenderTurn(message, persona) ==
    [header |-> <<"Assistant", persona, "mode">>,
     human  |-> message.human,
     AI     |-> message.AI,
     audio  |-> text_to_audio(message.AI)]

Render(hist, persona) == [i \in 1..Len(hist) |-> RenderTurn(hist[i], persona)]

\* chat_history.append({'human': ..., 'AI': ...})
PrependTurn(hist, human, ai) == <<[human |-> human, AI |-> ai]>> \o hist

AppendTurn(hist, human, ai) == Append(hist, [human |-> human, AI |-> ai])

\* get_voice_input(): what it returns, or that it raised.
get_voice_input_uncaught(outcome, heard) ==
    CASE outcome = "recognized" -> [text |-> heard, raised |-> FALSE]
      [] outcome \in {"WaitTimeoutError", "UnknownValueError"} ->
            [text |-> <<>>, raised |-> FALSE]
      [] OTHER -> [text |-> <<>>, raised |-> TRUE]

get_voice_input(outcome, heard) ==
    CASE outcome = "recognized" -> [text |-> heard, raised |-> FALSE]
      [] outcome \in HandledSpeechFailures -> [text |-> <<>>, raised |-> FALSE]
      [] OTHER -> [text |-> <<>>, raised |-> TRUE]

NoRequest ==
    [made |-> FALSE, via |-> "none", model |-> "none", prompt |-> "none",
     history |-> <<>>, input |-> <<>>, outcome |-> "none",
     response |-> <<>>, afterNewTopic |-> FALSE]

NoVoice == [called |-> FALSE, outcome |-> "none", text |-> <<>>, raised |-> FALSE]

\* conversation(input): ConversationChain.__call__.  The prompt is built
\* from the persona template, the memory buffer and the input; the memory
\* is written only after the model has answered.
conversation(mem, via, input, outcome, resp) ==
    LET req == [made |-> TRUE, via |-> via, model |-> model,
                prompt |-> get_custom_prompt(selected_persona).answer,
                history |-> buffer(mem), input |-> input,
                outcome |-> outcome,
                response |-> IF outcome = "ok" THEN resp ELSE <<>>,
                afterNewTopic |-> lastEvent = "new_topic"]
    IN  [request |-> req,
         raised  |-> outcome # "ok",
         response |-> resp,
         memory  |-> IF outcome = "ok" THEN save_context(mem, input, resp)
                     ELSE mem]

\* The try/except around conversation(...): the turn is appended only when
\* the call returned.
AfterCallPartial(hist, input, call) ==
    IF call.raised THEN AppendTurn(hist, input, <<>>)
    ELSE AppendTurn(hist, input, call.response)

AfterCall(hist, input, call) ==
    IF call.raised THEN hist ELSE AppendTurn(hist, input, call.response)

\* --------------------------------------------------------------- actions
\* initialize_session_state() and the first script run.
Init ==
    /\ chat_history = <<>>
    /\ total_messages = 0
    /\ start_time = None
    /\ user_input = <<>>
    /\ selected_persona = "Default"
    /\ model = "gemma2-9b-it"
    /\ memory_length = DefaultMemory
    /\ memory = [k |-> DefaultMemory, messages |-> <<>>]
    /\ display = <<>>
    /\ request = NoRequest
    /\ voice = NoVoice
    /\ sent = <<>>
    /\ dropped = 0
    /\ lastEvent = "init"

\* A script run in which no button is pressed: memory is rebuilt from the
\* transcript and the transcript is drawn.
PlainRun(event) ==
    /\ memory' = RunMemory(memory_length', chat_history')
    /\ display' = Render(chat_history', selected_persona')
    /\ request' = NoRequest
    /\ voice' = NoVoice
    /\ lastEvent' = event

\* The user picks another model.
ChangeModel ==
    \E m \in Models \ {model} :
        /\ model' = m
        /\ dropped' = 0
        /\ UNCHANGED <<chat_history, total_messages, start_time, user_input,
                       selected_persona, memory_length, sent>>
        /\ PlainRun("widget")

\* The user moves the memory slider.
ChangeMemoryLength ==
    \E k \in SliderChoices \ {memory_length} :
        /\ memory_length' = k
        /\ dropped' = 0
        /\ UNCHANGED <<chat_history, total_messages, start_time, user_input,
                       selected_persona, model, sent>>
        /\ PlainRun("widget")

\* The user picks another persona.
ChangePersona ==
    \E p \in Personas \ {selected_persona} :
        /\ selected_persona' = p
        /\ dropped' = 0
        /\ UNCHANGED <<chat_history, total_messages, start_time, user_input,
                       model, memory_length, sent>>
        /\ PlainRun("widget")

\* The user edits the text box.
EditInput ==
    \E t \in BoxTexts \ {user_input} :
        /\ user_input' = t
        /\ dropped' = 0
        /\ UNCHANGED <<chat_history, total_messages, start_time,
                       selected_persona, model, memory_length, sent>>
        /\ PlainRun("widget")

\* "Clear Chat History": reset, then st.rerun().
ClearKeepsTimer ==
    /\ chat_history' = <<>>
    /\ start_time' = start_time
    /\ user_input' = <<>>
    /\ sent' = <<>>
    /\ dropped' = Len(chat_history)
    /\ UNCHANGED <<total_messages, selected_persona, model, memory_length>>
    /\ PlainRun("clear")

ClearChatHistory ==
    /\ chat_history' = <<>>
    /\ start_time' = None
    /\ user_input' = <<>>
    /\ sent' = <<>>
    /\ dropped' = Len(chat_history)
    /\ UNCHANGED <<total_messages, selected_persona, model, memory_length>>
    /\ PlainRun("clear")

\* "Use Voice Input".
UseVoiceInput ==
    \E so \in SpeechOutcomes, heard \in HeardTexts,
       co \in ChatOutcomes, resp \in Responses :
        /\ ((so = "recognized" /\ co = "ok") => Len(chat_history) < MaxTurns)
        /\ LET mem0 == RunMemory(memory_length, chat_history)
               v    == get_voice_input(so, heard)
               call == conversation(mem0, "voice", v.text, co, resp)
           IN  /\ voice' = [called |-> TRUE, outcome |-> so,
                            text |-> v.text, raised |-> v.raised]
               /\ lastEvent' = "voice"
               /\ dropped' = 0
               /\ UNCHANGED <<total_messages, start_time, user_input,
                              selected_persona, model, memory_length>>
               /\ IF v.raised \/ ~Truthy(v.text)
                  THEN /\ request' = NoRequest
                       /\ memory' = mem0
                       /\ display' = Render(chat_history, selected_persona)
                       /\ UNCHANGED <<chat_history, sent>>
                  ELSE /\ request' = call.request
                       /\ chat_history' = AfterCall(chat_history, v.text, call)
                       /\ IF call.raised
                          THEN /\ memory' = call.memory
                               /\ display' = Render(chat_history, selected_persona)
                               /\ UNCHANGED sent
                          ELSE /\ sent' = Append(sent, <<v.text, call.response>>)
                               \* st.rerun()
                               /\ memory' = RunMemory(memory_length, chat_history')
                               /\ display' = Render(chat_history', selected_persona)

\* "Send".
Send ==
    \E co \in ChatOutcomes, resp \in Responses, now \in Times :
        /\ (co = "ok" => Len(chat_history) < MaxTurns)
        /\ LET mem0 == RunMemory(memory_length, chat_history)
               call == conversation(mem0, "send", user_input, co, resp)
           IN  /\ voice' = NoVoice
               /\ lastEvent' = "send"
               /\ dropped' = 0
               /\ UNCHANGED <<total_messages, user_input, selected_persona,
                              model, memory_length>>
               /\ IF ~Truthy(strip(user_input))
                  THEN /\ request' = NoRequest
                       /\ memory' = mem0
                       /\ display' = Render(chat_history, selected_persona)
                       /\ UNCHANGED <<chat_history, start_time, sent>>
                  ELSE /\ start_time' = IF start_time = None THEN now
                                        ELSE start_time
                       /\ request' = call.request
                       /\ chat_history' = AfterCall(chat_history, user_input, call)
                       /\ IF call.raised
                          THEN /\ memory' = call.memory
                               /\ display' = Render(chat_history, selected_persona)
                               /\ UNCHANGED sent
                          ELSE /\ sent' = Append(sent, <<user_input, call.response>>)
                               \* st.rerun()
                               /\ memory' = RunMemory(memory_length, chat_history')
                               /\ display' = Render(chat_history', selected_persona)

\* "New Topic": memory.clear() on the run-local memory, no rerun.
NewTopicClearsTranscript ==
    /\ memory' = clear(RunMemory(memory_length, chat_history))
    /\ display' = Render(chat_history, selected_persona)
    /\ request' = NoRequest
    /\ voice' = NoVoice
    /\ lastEvent' = "new_topic"
    /\ dropped' = 0
    /\ chat_history' = <<>>
    /\ UNCHANGED <<total_messages, start_time, user_input,
                   selected_persona, model, memory_length, sent>>

NewTopic ==
    /\ memory' = clear(RunMemory(memory_length, chat_history))
    /\ display' = Render(chat_history, selected_persona)
    /\ request' = NoRequest
    /\ voice' = NoVoice
    /\ lastEvent' = "new_topic"
    /\ dropped' = 0
    /\ UNCHANGED <<chat_history, total_messages, start_time, user_input,
                   selected_persona, model, memory_length, sent>>

Next ==
    \/ ChangeModel
    \/ ChangeMemoryLength
    \/ ChangePersona
    \/ EditInput
    \/ ClearChatHistory
    \/ UseVoiceInput
    \/ Send
    \/ NewTopic

Spec == Init /\ [][Next]_vars

\* ---------------------------------------------------------------- claims
\* The messages of the last min(Len(hist), k) turns of hist, oldest first.
ExpectedContext(hist, k) ==
    LET n     == Min(Len(hist), k)
        first == Len(hist) - n
    IN  [i \in 1..(2 * n) |->
            IF i % 2 = 1
            THEN [type |-> "Human", content |-> hist[first + (i + 1) \div 2].human]
            ELSE [type |-> "AI", content |-> hist[first + i \div 2].AI]]

\* C1: the transcript is exactly the (input, response) pairs of the
\* successful sends since it was last empty, in order; a step either leaves
\* it alone, appends one turn at the end, or empties it.
C1_TranscriptIsTheSends ==
    [][ /\ chat_history' =
              [i \in 1..Len(sent') |-> [human |-> sent'[i][1], AI |-> sent'[i][2]]]
        /\ \/ chat_history' = <<>>
           \/ /\ Len(chat_history') \in {Len(chat_history), Len(chat_history) + 1}
              /\ SubSeq(chat_history', 1, Len(chat_history)) = chat_history
      ]_vars

C1_Witness ==
    /\ Len(chat_history) = 3
    /\ sent = << << <<"a">>, <<"r">> >>, << <<"v">>, <<"r">> >>, << <<"a">>, <<"r">> >> >>
    /\ chat_history[2] = [human |-> <<"v">>, AI |-> <<"r">>]

\* C2: the history handed to the chat service by a request is the last
\* min(N, k) turns of the transcript the request was made on, in order;
\* and on that transcript the window is the last min(N, k) turns for every
\* slider position k in 1..10.
C2_ContextIsWindow ==
    [][request'.made =>
          /\ request'.history = ExpectedContext(chat_history, memory_length)
          /\ \A k \in MemoryLengths :
                buffer(RunMemory(k, chat_history)) =
                    ExpectedContext(chat_history, k)]_vars

C2_Witness ==
    /\ request.made
    /\ request.outcome = "error"
    /\ memory_length = 2
    /\ Len(chat_history) = 3
    /\ chat_history[1].human # chat_history[2].human
    /\ request.history =
          << [type |-> "Human", content |-> chat_history[2].human],
             [type |-> "AI", content |-> chat_history[2].AI],
             [type |-> "Human", content |-> chat_history[3].human],
             [type |-> "AI", content |-> chat_history[3].AI] >>

\* C3: a request whose chat-service call fails leaves the transcript as it
\* was before the attempt.
C3_FailureKeepsTranscript ==
    [][(request'.made /\ request'.outcome = "error") =>
          chat_history' = chat_history]_vars

C3_Witness ==
    /\ request.made
    /\ request.outcome = "error"
    /\ request.via = "voice"
    /\ Len(chat_history) = 2

\* C4: a Send whose chat-service call fails leaves both the transcript and
\* the session start timestamp as they were.
C4_FailedSendKeepsSession ==
    [][(request'.made /\ request'.via = "send" /\ request'.outcome = "error") =>
          (chat_history' = chat_history /\ start_time' = start_time)]_vars

\* C5: Clear History leaves the transcript empty, the timer unset and the
\* text box empty, and a request that follows it carries no context.
C5_ClearResets ==
    [][ /\ lastEvent' = "clear" =>
              /\ chat_history' = <<>>
              /\ start_time' = None
              /\ user_input' = <<>>
              /\ buffer(memory') = <<>>
        /\ (lastEvent = "clear" /\ request'.made) => request'.history = <<>>
      ]_vars

C5_Witness ==
    /\ lastEvent = "clear"
    /\ dropped = 3
    /\ chat_history = <<>>
    /\ start_time = None

\* C6: on a listen timeout, unintelligible audio or a recognition request
\* failure, get_voice_input returns the empty string without raising, no
\* chat request is made and the transcript is unchanged.
C6_SpeechFailureIsEmpty ==
    [][(voice'.called /\ voice'.outcome \in HandledSpeechFailures) =>
          /\ voice'.text = <<>>
          /\ ~voice'.raised
          /\ ~request'.made
          /\ chat_history' = chat_history]_vars

C6_Witness ==
    /\ voice.called
    /\ voice.outcome = "RequestError"
    /\ voice.text = <<>>
    /\ ~request.made
    /\ Len(chat_history) = 1

\* C7: changing the persona or the model leaves what is displayed for every
\* stored turn (header, human text, assistant text, audio) as it was.
C7_SelectionKeepsDisplay ==
    [][(selected_persona' # selected_persona \/ model' # model) =>
          display' = display]_vars

\* C8: New Topic leaves the transcript and the timer as they were and
\* clears the replay memory.
C8_NewTopicKeepsSession ==
    [][lastEvent' = "new_topic" =>
          /\ chat_history' = chat_history
          /\ start_time' = start_time
          /\ memory'.messages = <<>>]_vars

C8_Witness ==
    /\ lastEvent = "new_topic"
    /\ Len(chat_history) = 2
    /\ start_time # None
    /\ memory.messages = <<>>

\* C9: a request made right after New Topic still carries the last
\* min(N, k) turns of the transcript as context.
C9_NewTopicDoesNotLast ==
    [][(lastEvent = "new_topic" /\ request'.made) =>
          /\ memory.messages = <<>>
          /\ request'.history = ExpectedContext(chat_history, memory_length)]_vars

C9_Witness ==
    /\ request.made
    /\ request.afterNewTopic
    /\ Len(request.history) = 4

\* C10: the timer is set, and so the statistics panel is shown, whenever
\* the transcript is non-empty.
C10_TimerSetWhenNonEmpty == chat_history # <<>> => StatisticsShown

====
